---- MODULE Spec2Model ----
(***************************************************************************)
(* Model of blobcopy (src/main.go, current revision, lines 1-412):         *)
(* the flags, keys and safety check of main, the mirror loop, copyObj, the *)
(* deterministic cipher, the key transform, the safety marker and the      *)
(* error collector of main.                                                *)
(*                                                                         *)
(* Spec follows runs of the command and direct calls of mirror; SpecFn     *)
(* calls encrypt, decrypt, makeKey, enableSafetyCheck and safetyCheck on   *)
(* their own, as the unit tests do.                                        *)
(*                                                                         *)
(* Byte strings ([]byte and Go strings) are sequences over Byte.  The      *)
(* cipher is a small authenticated cipher with the structure of the code:  *)
(* the nonce is a prefix of the digest of the plaintext, the output is     *)
(* nonce ++ ciphertext ++ tag, and opening checks the tag.                 *)
(***************************************************************************)
EXTENDS Integers, Sequences, FiniteSets, TLC

\* ------------------------------------------------------------------ bounds
MaxObjs == 2
MaxFail == 1
MaxSkip == 1
\* longest byte string given to the cipher and the key transform on their own
MaxLen == 2

\* ------------------------------------------------- scaled program constants
\* gcm.NonceSize() (12 in the program), the GCM tag (16) and md5.Size (16)
NonceSize == 2
TagSize == 1
MD5Size == 6

Byte == 0..3
ByteMod == Cardinality(Byte)
Nil == <<>>

\* ------------------------------------------------------------ byte helpers
RECURSIVE SumSeq(_)
SumSeq(s) == IF s = <<>> THEN 0 ELSE Head(s) + SumSeq(Tail(s))

RECURSIVE WSum(_, _)
\* position-weighted sum of a byte string
WSum(s, i) == IF s = <<>> THEN 0 ELSE i * Head(s) + WSum(Tail(s), i + 1)

RECURSIVE Pow(_, _)
Pow(b, n) == IF n = 0 THEN 1 ELSE b * Pow(b, n - 1)

RECURSIVE Fold5(_, _)
\* the number of a byte string, injective on strings that fit MD5Size digits
Fold5(s, h) ==
  IF s = <<>> THEN h
  ELSE Fold5(Tail(s), (h * (ByteMod + 1) + Head(s) + 1) % Pow(ByteMod, MD5Size))

\* md5.Sum: a fixed-size digest of the text (least significant digit first)
MD5(text) ==
  LET n == Fold5(text, 0)
  IN  [i \in 1..MD5Size |-> (n \div Pow(ByteMod, i - 1)) % ByteMod]

\* ------------------------------------------------------------------ cipher
KeyNum(key) == SumSeq(key)

\* key stream offset of one message
Stream(key, nonce) == KeyNum(key) + SumSeq(nonce)

\* the authentication tag gcm.Seal appends and gcm.Open verifies
Tag(key, nonce, ct) ==
  <<(KeyNum(key) + SumSeq(nonce) + WSum(ct, 1)) % ByteMod>>

\* mutant: sealing with a key stream that opening does not use
encrypt_shifted(text, key) ==
  IF Len(key) = 0 THEN text
  ELSE LET nonce == SubSeq(MD5(text), 1, NonceSize)
           ct == [i \in 1..Len(text) |-> (text[i] + Stream(key, nonce) + i + 1) % ByteMod]
       IN  nonce \o ct \o Tag(key, nonce, ct)

\* encrypt(text, key): identity for the empty key, else nonce ++ Seal(text)
encrypt(text, key) ==
  IF Len(key) = 0 THEN text
  ELSE LET nonce == SubSeq(MD5(text), 1, NonceSize)
           ct == [i \in 1..Len(text) |-> (text[i] + Stream(key, nonce) + i) % ByteMod]
       IN  nonce \o ct \o Tag(key, nonce, ct)

Ok(v) == [st |-> "ok", val |-> v]
Err == [st |-> "err", val |-> Nil]
Panic == [st |-> "panic", val |-> Nil]

\* decrypt(cyphertext, key): slicing off the nonce panics on short input,
\* gcm.Open returns an error when the tag does not verify
decrypt(cyphertext, key) ==
  IF Len(key) = 0 THEN Ok(cyphertext)
  ELSE IF Len(cyphertext) < NonceSize THEN Panic
  ELSE LET nonce == SubSeq(cyphertext, 1, NonceSize)
           rest == SubSeq(cyphertext, NonceSize + 1, Len(cyphertext))
       IN  IF Len(rest) < TagSize THEN Err
           ELSE LET ct == SubSeq(rest, 1, Len(rest) - TagSize)
                    tag == SubSeq(rest, Len(rest) - TagSize + 1, Len(rest))
                IN  IF tag # Tag(key, nonce, ct) THEN Err
                    ELSE Ok([i \in 1..Len(ct) |->
                               (ct[i] - Stream(key, nonce) - i) % ByteMod])

\* ---------------------------------------------------------------- base64url
B64Digit == 0..1
B64Mod == Cardinality(B64Digit)

\* mutant: an encoding that drops the high symbol of every byte
B64Encode_low(bytes) ==
  [i \in 1..(2 * Len(bytes)) |-> bytes[(i + 1) \div 2] % B64Mod]

RECURSIVE B64Encode(_)
\* base64.URLEncoding.EncodeToString: every byte becomes two alphabet symbols
B64Encode(bytes) ==
  IF bytes = <<>> THEN <<>>
  ELSE <<Head(bytes) \div B64Mod, Head(bytes) % B64Mod>> \o B64Encode(Tail(bytes))

RECURSIVE B64Decode(_)
\* base64.URLEncoding.DecodeString: fails on a symbol outside the alphabet or
\* on an incomplete group
B64Decode(str) ==
  IF str = <<>> THEN Ok(<<>>)
  ELSE IF Len(str) < 2 \/ str[1] \notin B64Digit \/ str[2] \notin B64Digit THEN Err
  ELSE LET r == B64Decode(Tail(Tail(str)))
       IN  IF r.st # "ok" THEN Err
           ELSE Ok(<<str[1] * B64Mod + str[2]>> \o r.val)

\* makeKey(oldKey, bytesEncrypt, bytesDecrypt)
makeKey(oldKey, bytesEncrypt, bytesDecrypt) ==
  LET k1 == IF Len(bytesEncrypt) # 0
            THEN B64Encode(encrypt(oldKey, bytesEncrypt))
            ELSE oldKey
  IN  IF Len(bytesDecrypt) # 0
      THEN LET d == B64Decode(k1)
           IN  IF d.st # "ok" THEN Err ELSE decrypt(d.val, bytesDecrypt)
      ELSE Ok(k1)

\* the pure part of copyObj: the new key and the new text of one object
\* (the reads and writes of the stores are in the actions)
copyObj(text, key, bytesEncrypt, bytesDecrypt) ==
  LET nk == makeKey(key, bytesEncrypt, bytesDecrypt)
  IN  IF nk.st # "ok" THEN [st |-> nk.st, newKey |-> Nil, newText |-> Nil]
      ELSE LET nt == decrypt(encrypt(text, bytesEncrypt), bytesDecrypt)
           IN  IF nt.st # "ok" THEN [st |-> nt.st, newKey |-> Nil, newText |-> Nil]
               ELSE [st |-> "ok", newKey |-> nk.val, newText |-> nt.val]

\* ------------------------------------------------------------------ stores
\* a bucket is a function from keys to contents
Empty == [x \in {} |-> <<>>]
\* mutant: a write that replaces the bucket by the one object
Put_only(b, k, v) == [x \in {k} |-> v]
\* bucket.NewWriter(key), Write, Close
Put(b, k, v) == [x \in (DOMAIN b) \cup {k} |-> IF x = k THEN v ELSE b[x]]
\* mutant: a delete that leaves the object
Remove_kept(b, k) == b
\* bucket.Delete(key)
Remove(b, k) == [x \in (DOMAIN b) \ {k} |-> b[x]]

RECURSIVE Less(_, _)
\* lexicographic order of keys, the order in which a bucket is listed
Less(a, b) ==
  IF a = <<>> THEN b # <<>>
  ELSE IF b = <<>> THEN FALSE
  ELSE IF Head(a) # Head(b) THEN Head(a) < Head(b)
  ELSE Less(Tail(a), Tail(b))

RECURSIVE SortKeys(_)
SortKeys(S) ==
  IF S = {} THEN <<>>
  ELSE LET m == CHOOSE x \in S : \A y \in S \ {x} : Less(x, y)
       IN  <<m>> \o SortKeys(S \ {m})

\* ----------------------------------------------------------- safety marker
\* the literal "_blobcopy_safety_"
SafetyPrefix == <<3>>

\* safetyName(encKey): the encrypted key name of the marker of a key
safetyName(encKey) == makeKey(SafetyPrefix \o MD5(encKey), encKey, Nil).val

\* encrypt([]byte(encKeyName), encKey): the content of the marker
safetyContent(encKey) == encrypt(safetyName(encKey), encKey)

\* enableSafetyCheck(ctx, bkt, encKey) when the writer succeeds: the bucket after
enableSafetyCheck(bkt, encKey) == Put(bkt, safetyName(encKey), safetyContent(encKey))

\* mutant: the marker only has to exist
safetyCheck_exists(bkt, encKey) == safetyName(encKey) \in DOMAIN bkt

\* safetyCheck(ctx, bkt, encKey) when the reads succeed: NotFound gives false,
\* else the content is compared with the expected content
safetyCheck(bkt, encKey) ==
  IF safetyName(encKey) \notin DOMAIN bkt THEN FALSE
  ELSE safetyContent(encKey) = bkt[safetyName(encKey)]

\* ------------------------------------------------------------------- state
VARIABLES
  src, dst, tmp,        \* sbkt, dbkt, tmpBkt: the three buckets
  hasMD5,               \* which buckets report Attributes.MD5 (nil otherwise)
  useTmp,               \* tmpBkt != nil
  bytesEncrypt, bytesDecrypt, skipN,
  pos,                  \* iter: index of the next object of the listing
  loopN, addedN,
  cleanloop,            \* <<>> for func(){}, <<newKey, k>> for the closure that
                        \* deletes newKey, staged for obj.Key = k
  pc,                   \* position of the main goroutine
  sendMsg, sendAfter,   \* the error main is blocked sending, and where it resumes
  crashBy,              \* cause of a panic
  dpc, errsN,           \* the drain goroutine and its counter
  stopErrs, errsStopped,\* closed(stopErrs), closed(errsStopped)
  printed,              \* the summary line: <<n, errsN>>, <<>> before
  run, src0, dstStart, first, \* which mirror call this is, what it started from,
                        \* and the outcome of the first call
  injected,             \* store failures injected so far (bounded by MaxFail)
  failEvents,           \* history: failures of steps so far in this run
  sentN,                \* history: errors handed to the channel in this run
  sentLog,              \* history: the errors handed to the channel, in order
  recvErr,              \* e of line 122: the error received and not yet logged
  errLog,               \* history: the errors logged by log.Println(e), in order
  touched,              \* history: source keys that reached sbkt.Attributes
  dstWrites, matchedN,  \* history: completed destination writes, hash matches
  lastWrite,            \* history: the last destination write
  cleanRuns,            \* history: executions of the cleanloop closure now in place
  delFails,             \* history: failed deletes from the temporary bucket, this run
  errKeys,              \* history: source keys named in an error sent in this run
  copiedKeys,           \* history: source keys counted by addedN++ in this run
  entry,                \* "main": the command is run; "call": mirror is called
                        \* as the tests call it; "fn": single functions are called
  passEncrypt, passDecrypt, useSafety, genSafety, \* the flags of main
  tmpFlag,              \* the tmp-bkt flag as given, "" when it is not given
  tmpUrl,               \* main's useTmp: the URL of the temporary bucket, "" for none
  password,             \* BLOBCOPY_ENCRYPTION_PASSWORD, or what is typed twice
  checked,              \* history: outcome of safetyCheck in this run, "no" before
  enabled,              \* history: outcome of enableSafetyCheck in this run
  call, ret             \* a function called on its own, and what it returned

cfgVars == <<hasMD5, useTmp, bytesEncrypt, bytesDecrypt, skipN>>
runVars == <<run, src0, dstStart, first>>
drainVars == <<dpc, errsN, stopErrs, errsStopped>>
histVars == <<failEvents, touched, dstWrites, matchedN, lastWrite>>
lifeVars == <<cleanRuns, delFails, errKeys, copiedKeys>>
logVars == <<sentLog, recvErr, errLog>>
mainVars == <<entry, passEncrypt, passDecrypt, useSafety, genSafety, tmpFlag, tmpUrl, password,
              checked, enabled>>
fnVars == <<call, ret>>
vars == <<src, dst, tmp, cfgVars, pos, loopN, addedN, cleanloop, pc, sendMsg,
          sendAfter, crashBy, drainVars, printed, runVars, histVars, lifeVars, logVars, sentN, injected,
          mainVars, fnVars>>

\* ---------------------------------------------------------- initial states
Key1 == <<1>>
Key2 == <<2>>
KeyNames == {<<0, 0, 0, 0, 0, 0>>, <<0, 1>>, <<2>>}
Stale == <<0>>

\* the sources: up to MaxObjs objects, all with the same content or not
Sources ==
  {[k \in S |-> IF same \/ k = <<0, 1>> THEN <<1>> ELSE <<2, 3>>] :
     S \in {T \in SUBSET KeyNames : Cardinality(T) <= MaxObjs}, same \in BOOLEAN}

\* what a destination may hold before the run: nothing, or one object under
\* the (plain or encrypted) key of the last source object, with the content a
\* mirror would give it or with another content
InitDsts(s, ek) ==
  {Empty} \cup
  UNION {{Put(Empty, makeKey(x, ek, Nil).val, c) : c \in {encrypt(s[x], ek), Stale}} :
           x \in {y \in DOMAIN s : \A z \in DOMAIN s \ {y} : Less(z, y)}}

\* <<useTmp, bytesEncrypt, bytesDecrypt>> of the first call
CallModes ==
  {<<FALSE, Nil, Nil>>, <<TRUE, Nil, Nil>>, <<FALSE, Key1, Nil>>,
   <<TRUE, Key1, Nil>>, <<TRUE, Nil, Key1>>}

MD5Modes ==
  {[b \in {"src", "dst", "tmp"} |-> b \notin N] : N \in {{}, {"src"}, {"src", "dst"}}}

\* the counters, channels and histories as they are when a run starts
FreshState ==
  /\ pos = 1 /\ loopN = 0 /\ addedN = 0 /\ cleanloop = <<>>
  /\ sendMsg = "" /\ sendAfter = "" /\ crashBy = ""
  /\ dpc = "select" /\ errsN = 0 /\ stopErrs = FALSE /\ errsStopped = FALSE
  /\ printed = <<>>
  /\ run = "first" /\ src0 = src /\ dstStart = dst /\ first = <<>>
  /\ sentLog = <<>> /\ recvErr = "" /\ errLog = <<>>
  /\ injected = 0 /\ failEvents = 0 /\ sentN = 0 /\ touched = {} /\ dstWrites = 0
  /\ matchedN = 0 /\ lastWrite = <<>>
  /\ cleanRuns = 0 /\ delFails = 0 /\ errKeys = {} /\ copiedKeys = {}
  /\ checked = "no" /\ enabled = "no"

NoFlags ==
  /\ passEncrypt = FALSE /\ passDecrypt = FALSE /\ useSafety = FALSE
  /\ genSafety = FALSE /\ tmpFlag = "" /\ tmpUrl = "" /\ password = Nil

NoCall == call = <<>> /\ ret = <<>>

\* mirror is called directly, as TestMirror and TestEncryptBucket call it
InitCall ==
  /\ entry = "call"
  /\ src \in Sources
  /\ \E m \in CallModes : useTmp = m[1] /\ bytesEncrypt = m[2] /\ bytesDecrypt = m[3]
  /\ dst \in InitDsts(src, IF useTmp THEN bytesEncrypt ELSE Nil)
  /\ tmp = Empty
  /\ hasMD5 \in MD5Modes
  /\ skipN \in 0..MaxSkip
  /\ pc = "loop"
  /\ FreshState /\ NoFlags /\ NoCall

\* the passwords of the runs of the command
Pass1 == <<1>>
Pass2 == <<2>>

\* getAuthentication: the key is md5(md5(pass)) followed by md5(pass)
getAuthentication(pass) == MD5(MD5(pass)) \o MD5(pass)

\* the source of the runs of the command: one object
MainSources == {[k \in {<<2>>} |-> <<2, 3>>]}

\* what the destination of a run of the command may hold before it: nothing,
\* or the marker of no key, of the key of Pass1 or of the key of Pass2
MainDsts ==
  {Empty} \cup
  {enableSafetyCheck(Empty, K) : K \in {Nil, getAuthentication(Pass1),
                                         getAuthentication(Pass2)}}

\* the command is run: the state after flag.Parse (line 48)
InitMain ==
  /\ entry = "main"
  /\ passEncrypt \in BOOLEAN /\ passDecrypt \in BOOLEAN
  /\ useSafety \in BOOLEAN /\ genSafety \in BOOLEAN
  /\ tmpFlag \in {"", "bkt://"}
  /\ tmpUrl = tmpFlag
  /\ password = Pass1
  /\ src \in MainSources
  /\ dst \in MainDsts
  /\ tmp = Empty
  /\ hasMD5 = [b \in {"src", "dst", "tmp"} |-> TRUE]
  /\ skipN = 0
  /\ useTmp = FALSE /\ bytesEncrypt = Nil /\ bytesDecrypt = Nil
  /\ pc = "main"
  /\ FreshState /\ NoCall

Init == InitCall \/ InitMain

\* -------------------------------------------------------------- mirror loop
\* iter := sbkt.List(nil): the keys of the source in listing order
Listing == SortKeys(DOMAIN src)
HasNext == pos <= Len(Listing)
obj == Listing[pos]

\* Attributes(key).MD5 of a content held by bucket b: nil when not reported
AttrMD5(b, content) == IF hasMD5[b] THEN MD5(content) ELSE Nil

\* mutant: the comparison inverted
HashesMatch_inverted(smd5, dmd5) == smd5 # dmd5

\* string(sattrs.MD5) == string(dattrs.MD5)
HashesMatch(smd5, dmd5) == smd5 = dmd5

\* mutant: the skip test made before loopN++
SkipCounted_early(n) == n - 1 <= skipN

\* loopN <= skipN, evaluated after loopN++
SkipCounted(n) == n <= skipN

\* store failures are injected in the first call only, at most MaxFail of them
CanFail(n) == run = "first" /\ injected + n <= MaxFail
Bit(b) == IF b THEN 1 ELSE 0

\* errs <- err: main blocks until the drain goroutine receives
SendErr(msg, after) ==
  /\ pc' = "send" /\ sendMsg' = msg /\ sendAfter' = after

NoSend == UNCHANGED <<sendMsg, sendAfter>>

\* mutant: a later run seals with something the first run did not use
Stage_rekeyed(k) ==
  copyObj(src[k], k, IF run = "again" THEN Key2 ELSE bytesEncrypt, bytesDecrypt)

\* copyObj(ctx, sbkt, tmpBkt, obj.Key, bytesEncrypt, bytesDecrypt)
Stage(k) == copyObj(src[k], k, bytesEncrypt, bytesDecrypt)

\* csbkt, objKey and the text the destination copy reads
objKey(k) == IF useTmp THEN Stage(k).newKey ELSE k
objText(k) == IF useTmp THEN Stage(k).newText ELSE src[k]
csbkt == IF useTmp THEN "tmp" ELSE "src"

\* lines 170-186 when the copy into the temporary bucket succeeds
Staged(k) ==
  IF useTmp
  THEN /\ Stage(k).st = "ok"
       /\ tmp' = Put(tmp, Stage(k).newKey, Stage(k).newText)
       /\ cleanloop' = <<Stage(k).newKey, k>>
       /\ cleanRuns' = 0
  ELSE UNCHANGED <<tmp, cleanloop, cleanRuns>>

\* an object was taken from the iterator and is not skip-counted
Retained ==
  /\ pc = "body" /\ HasNext /\ ~SkipCounted(loopN + 1)
  /\ loopN' = loopN + 1 /\ pos' = pos + 1
  /\ touched' = touched \cup {obj}

\* the error sent names obj.Key
Reported(k) == errKeys' = errKeys \cup {k}

\* one more execution of the closure installed by line 180
NextCleanRuns(n) == n + 1

Frame == UNCHANGED <<src, cfgVars, mainVars, fnVars, drainVars, printed, runVars, sentN, logVars>>

\* line 146, cleanloop(): nothing to delete
CleanNoop ==
  /\ UNCHANGED injected
  /\ pc = "loop" /\ cleanloop = <<>>
  /\ pc' = "body"
  /\ NoSend /\ Frame
  /\ UNCHANGED <<dst, tmp, pos, loopN, addedN, cleanloop, crashBy, histVars, lifeVars>>

\* mutant: the closure does nothing in the iteration that finds the end of
\* the listing
CleanDelete_notLast ==
  /\ UNCHANGED injected
  /\ pc = "loop" /\ cleanloop # <<>> /\ cleanloop[1] \in DOMAIN tmp
  /\ tmp' = IF HasNext THEN Remove(tmp, cleanloop[1]) ELSE tmp
  /\ cleanRuns' = NextCleanRuns(cleanRuns)
  /\ pc' = "body"
  /\ NoSend /\ Frame
  /\ UNCHANGED <<dst, pos, loopN, addedN, cleanloop, crashBy, histVars, delFails,
                 errKeys, copiedKeys>>

\* line 146, cleanloop(): tmpBkt.Delete(newKey) succeeds
CleanDelete ==
  /\ UNCHANGED injected
  /\ pc = "loop" /\ cleanloop # <<>> /\ cleanloop[1] \in DOMAIN tmp
  /\ tmp' = Remove(tmp, cleanloop[1])
  /\ cleanRuns' = NextCleanRuns(cleanRuns)
  /\ pc' = "body"
  /\ NoSend /\ Frame
  /\ UNCHANGED <<dst, pos, loopN, addedN, cleanloop, crashBy, histVars, delFails,
                 errKeys, copiedKeys>>

\* line 146, cleanloop(): tmpBkt.Delete fails on a present object
CleanDeleteErr ==
  /\ pc = "loop" /\ cleanloop # <<>> /\ cleanloop[1] \in DOMAIN tmp
  /\ CanFail(1) /\ injected' = injected + 1 /\ failEvents' = failEvents + 1
  /\ cleanRuns' = NextCleanRuns(cleanRuns)
  /\ delFails' = delFails + 1
  /\ Reported(cleanloop[2])
  /\ SendErr("deleting", "body")
  /\ Frame
  /\ UNCHANGED <<dst, tmp, pos, loopN, addedN, cleanloop, crashBy,
                 touched, dstWrites, matchedN, lastWrite, copiedKeys>>

\* line 146, cleanloop(): the closure of an earlier iteration runs again and
\* tmpBkt.Delete reports that the object is not there
CleanDeleteGone ==
  /\ UNCHANGED injected
  /\ pc = "loop" /\ cleanloop # <<>> /\ cleanloop[1] \notin DOMAIN tmp
  /\ cleanRuns' = NextCleanRuns(cleanRuns)
  /\ Reported(cleanloop[2])
  /\ SendErr("deleting", "body")
  /\ Frame
  /\ UNCHANGED <<dst, tmp, pos, loopN, addedN, cleanloop, crashBy, histVars, delFails,
                 copiedKeys>>

\* lines 147-151: iter.Next returns io.EOF
BodyEOF ==
  /\ UNCHANGED injected
  /\ pc = "body" /\ ~HasNext
  /\ loopN' = loopN + 1
  /\ pc' = "returned"
  /\ NoSend /\ Frame
  /\ UNCHANGED <<dst, tmp, pos, addedN, cleanloop, crashBy, histVars, lifeVars>>

\* lines 152-155: iter.Next returns an error; the iterator keeps its position
BodyListErr ==
  /\ pc = "body"
  /\ CanFail(1) /\ injected' = injected + 1 /\ failEvents' = failEvents + 1
  /\ loopN' = loopN + 1
  /\ SendErr("iterating", "loop")
  /\ Frame
  /\ UNCHANGED <<dst, tmp, pos, addedN, cleanloop, crashBy,
                 touched, dstWrites, matchedN, lastWrite, lifeVars>>

\* lines 156-158: the object is discarded by the skip counter
BodySkip ==
  /\ UNCHANGED injected
  /\ pc = "body" /\ HasNext /\ SkipCounted(loopN + 1)
  /\ loopN' = loopN + 1 /\ pos' = pos + 1
  /\ pc' = "loop"
  /\ NoSend /\ Frame
  /\ UNCHANGED <<dst, tmp, addedN, cleanloop, crashBy, histVars, lifeVars>>

\* lines 160-164: sbkt.Attributes fails
BodySrcAttrErr ==
  /\ Retained
  /\ CanFail(1) /\ injected' = injected + 1 /\ failEvents' = failEvents + 1
  /\ SendErr("attributes", "loop")
  /\ Reported(obj)
  /\ Frame
  /\ UNCHANGED <<dst, tmp, addedN, cleanloop, crashBy, dstWrites, matchedN, lastWrite,
                 cleanRuns, delFails, copiedKeys>>

\* lines 172-176: a read or write of a store fails inside the staging copyObj
BodyStageErr ==
  /\ Retained /\ useTmp
  /\ makeKey(obj, bytesEncrypt, bytesDecrypt).st = "ok"
  /\ CanFail(1) /\ injected' = injected + 1 /\ failEvents' = failEvents + 1
  /\ SendErr("staging", "loop")
  /\ Reported(obj)
  /\ Frame
  /\ UNCHANGED <<dst, tmp, addedN, cleanloop, crashBy, dstWrites, matchedN, lastWrite,
                 cleanRuns, delFails, copiedKeys>>

\* lines 172-176: makeKey or decrypt returns an error inside the staging copyObj
BodyStageDecryptErr ==
  /\ UNCHANGED injected
  /\ Retained /\ useTmp
  /\ Stage(obj).st = "err"
  /\ failEvents' = failEvents + 1
  /\ SendErr("staging", "loop")
  /\ Reported(obj)
  /\ Frame
  /\ UNCHANGED <<dst, tmp, addedN, cleanloop, crashBy, dstWrites, matchedN, lastWrite,
                 cleanRuns, delFails, copiedKeys>>

\* line 290 reached from line 172: slice bounds out of range
BodyStagePanic ==
  /\ UNCHANGED injected
  /\ Retained /\ useTmp
  /\ Stage(obj).st = "panic"
  /\ pc' = "crashed" /\ crashBy' = "slice"
  /\ NoSend /\ Frame
  /\ UNCHANGED <<dst, tmp, addedN, cleanloop, failEvents, dstWrites, matchedN, lastWrite,
                 lifeVars>>

\* lines 178 and 189-193: dbkt.Exists fails; nilAttrs says that the unchecked
\* tmpBkt.Attributes of line 178 failed before and left sattrs nil
BodyExistsErr(nilAttrs) ==
  /\ Retained /\ Staged(obj)
  /\ nilAttrs => useTmp
  /\ CanFail(1 + Bit(nilAttrs)) /\ injected' = injected + 1 + Bit(nilAttrs)
  /\ failEvents' = failEvents + 1 + Bit(nilAttrs)
  /\ SendErr("exists", "loop")
  /\ Reported(obj)
  /\ Frame
  /\ UNCHANGED <<dst, addedN, crashBy, dstWrites, matchedN, lastWrite, delFails,
                 copiedKeys>>

\* lines 195-200: dbkt.Attributes fails on an existing destination object
BodyDstAttrErr(nilAttrs) ==
  /\ Retained /\ Staged(obj)
  /\ nilAttrs => useTmp
  /\ objKey(obj) \in DOMAIN dst
  /\ CanFail(1 + Bit(nilAttrs)) /\ injected' = injected + 1 + Bit(nilAttrs)
  /\ failEvents' = failEvents + 1 + Bit(nilAttrs)
  /\ SendErr("dattributes", "loop")
  /\ Reported(obj)
  /\ Frame
  /\ UNCHANGED <<dst, addedN, crashBy, dstWrites, matchedN, lastWrite, delFails,
                 copiedKeys>>

\* line 178 fails, sattrs is nil, and line 201 or line 206 dereferences it
BodyNilAttrPanic ==
  /\ Retained /\ useTmp /\ Staged(obj)
  /\ CanFail(1) /\ injected' = injected + 1 /\ failEvents' = failEvents + 1
  /\ pc' = "crashed" /\ crashBy' = "nilattrs"
  /\ NoSend /\ Frame
  /\ UNCHANGED <<dst, addedN, dstWrites, matchedN, lastWrite, delFails, errKeys,
                 copiedKeys>>

\* mutant: sattrs not taken again from the staged copy
UpToDate_unstaged(k) ==
  /\ objKey(k) \in DOMAIN dst
  /\ HashesMatch(AttrMD5("src", src[k]), AttrMD5("dst", dst[objKey(k)]))

\* the destination holds objKey and the hashes are equal (lines 195-203)
UpToDate(k) ==
  /\ objKey(k) \in DOMAIN dst
  /\ HashesMatch(AttrMD5(csbkt, objText(k)), AttrMD5("dst", dst[objKey(k)]))

\* lines 201-203: the hashes match, continue
BodyHashMatch ==
  /\ UNCHANGED injected
  /\ Retained /\ Staged(obj)
  /\ UpToDate(obj)
  /\ matchedN' = matchedN + 1
  /\ pc' = "loop"
  /\ NoSend /\ Frame
  /\ UNCHANGED <<dst, addedN, crashBy, failEvents, dstWrites, lastWrite, delFails,
                 errKeys, copiedKeys>>

\* lines 207-211: a read or write of a store fails inside the final copyObj
BodyCopyErr ==
  /\ Retained /\ Staged(obj)
  /\ ~UpToDate(obj)
  /\ CanFail(1) /\ injected' = injected + 1 /\ failEvents' = failEvents + 1
  /\ SendErr("copying", "loop")
  /\ Reported(obj)
  /\ Frame
  /\ UNCHANGED <<dst, addedN, crashBy, dstWrites, matchedN, lastWrite, delFails,
                 copiedKeys>>

\* mutant: the loop counter returned as the count
NextAdded_loop(n) == loopN + 1

\* addedN++ of line 212
NextAdded(n) == n + 1

\* lines 207-213: copyObj(ctx, csbkt, dbkt, objKey, []byte{}, []byte{})
BodyCopied ==
  /\ UNCHANGED injected
  /\ Retained /\ Staged(obj)
  /\ ~UpToDate(obj)
  /\ LET c == copyObj(objText(obj), objKey(obj), Nil, Nil)
     IN  /\ dst' = Put(dst, c.newKey, c.newText)
         /\ lastWrite' = <<[from |-> obj, key |-> c.newKey, text |-> c.newText,
                            pre |-> dst]>>
  /\ addedN' = NextAdded(addedN)
  /\ dstWrites' = dstWrites + 1
  /\ copiedKeys' = copiedKeys \cup {obj}
  /\ pc' = "loop"
  /\ NoSend /\ Frame
  /\ UNCHANGED <<crashBy, failEvents, matchedN, delFails, errKeys>>

\* ---------------------------------------------------------- error collector
Running == pc # "crashed"

\* lines 122 and 153 etc.: the handoff of one error over the unbuffered channel
DrainRecv ==
  /\ UNCHANGED injected
  /\ pc = "send" /\ dpc = "select"
  /\ pc' = sendAfter /\ sendMsg' = "" /\ sendAfter' = ""
  /\ dpc' = "count"
  /\ sentN' = sentN + 1
  /\ sentLog' = Append(sentLog, sendMsg) /\ recvErr' = sendMsg /\ UNCHANGED errLog
  /\ UNCHANGED <<src, dst, tmp, cfgVars, mainVars, fnVars, pos, loopN, addedN, cleanloop, crashBy,
                 errsN, stopErrs, errsStopped, printed, runVars, histVars, lifeVars>>

\* mutant: the log written newest first
Logged_newestFirst(log, e) == <<e>> \o log

\* log.Println(e) of line 123: one more line at the end of the log
Logged(log, e) == Append(log, e)

\* errsN++ of line 124
NextErrsN(n) == n + 1

\* lines 123-124: log the error and count it
DrainCount ==
  /\ UNCHANGED injected
  /\ Running /\ dpc = "count"
  /\ errLog' = Logged(errLog, recvErr) /\ recvErr' = "" /\ UNCHANGED sentLog
  /\ errsN' = NextErrsN(errsN)
  /\ dpc' = "select"
  /\ UNCHANGED <<src, dst, tmp, cfgVars, mainVars, fnVars, pos, loopN, addedN, cleanloop, pc, sendMsg,
                 sendAfter, crashBy, stopErrs, errsStopped, printed, runVars,
                 histVars, lifeVars, sentN>>

\* mutant: the stop case taken while a received error is not yet counted
DrainStop_early ==
  /\ UNCHANGED injected
  /\ Running /\ dpc \in {"select", "count"} /\ stopErrs
  /\ errsStopped' = TRUE
  /\ dpc' = "exited"
  /\ UNCHANGED <<src, dst, tmp, cfgVars, mainVars, fnVars, pos, loopN, addedN, cleanloop, pc, sendMsg,
                 sendAfter, crashBy, errsN, stopErrs, printed, runVars, histVars, lifeVars, logVars, sentN>>

\* lines 125-127: stopErrs is closed: acknowledge and return
DrainStop ==
  /\ UNCHANGED injected
  /\ Running /\ dpc = "select" /\ stopErrs
  /\ errsStopped' = TRUE
  /\ dpc' = "exited"
  /\ UNCHANGED <<src, dst, tmp, cfgVars, mainVars, fnVars, pos, loopN, addedN, cleanloop, pc, sendMsg,
                 sendAfter, crashBy, errsN, stopErrs, printed, runVars, histVars, lifeVars, logVars, sentN>>

\* line 133: close(stopErrs) after mirror returned
MainCloseStop ==
  /\ UNCHANGED injected
  /\ pc = "returned"
  /\ stopErrs' = TRUE
  /\ pc' = "stopping"
  /\ UNCHANGED <<src, dst, tmp, cfgVars, mainVars, fnVars, pos, loopN, addedN, cleanloop, sendMsg,
                 sendAfter, crashBy, dpc, errsN, errsStopped, printed, runVars,
                 histVars, lifeVars, logVars, sentN>>

\* lines 134-135: <-errsStopped, then the summary line
MainSummary ==
  /\ UNCHANGED injected
  /\ pc = "stopping" /\ errsStopped
  /\ printed' = <<[n |-> addedN, errs |-> errsN]>>
  /\ first' = IF run = "first"
              THEN <<[errs |-> errsN, fails |-> failEvents, skipN |-> skipN,
                      useTmp |-> useTmp, enc |-> bytesEncrypt,
                      fresh |-> dstStart = Empty,
                      useSafety |-> useSafety, genSafety |-> genSafety]>>
              ELSE first
  /\ pc' = "done"
  /\ UNCHANGED <<src, dst, tmp, cfgVars, mainVars, fnVars, pos, loopN, addedN, cleanloop, sendMsg,
                 sendAfter, crashBy, drainVars, run, src0, dstStart, histVars, lifeVars, logVars, sentN>>

\* ------------------------------------------------- main, before the mirror
loopVars == <<pos, loopN, addedN, cleanloop, sendMsg, sendAfter, crashBy>>

StartFrame ==
  UNCHANGED <<src, hasMD5, skipN, loopVars, drainVars, printed, run, src0, first,
              histVars, lifeVars, logVars, sentN, fnVars, entry, passEncrypt, passDecrypt, useSafety,
              genSafety, tmpFlag, password>>

\* mutant: no temporary bucket unless one is named
TmpDefault_none(url) == url

\* line 56-58: with encrypt or decrypt an unset tmp-bkt becomes "mem://"
TmpDefault(url) == IF (passEncrypt \/ passDecrypt) /\ url = "" THEN "mem://" ELSE url

\* lines 52-70: the keys of the run
MainAuth ==
  /\ pc = "main"
  /\ tmpUrl' = TmpDefault(tmpUrl)
  /\ bytesEncrypt' = IF passEncrypt THEN getAuthentication(password) ELSE Nil
  /\ bytesDecrypt' = IF passDecrypt THEN getAuthentication(password) ELSE Nil
  /\ pc' = "safety"
  /\ StartFrame
  /\ UNCHANGED <<dst, tmp, useTmp, checked, enabled, dstStart, injected>>

\* lines 59-63: getAuthentication fails (the two passwords typed differ)
MainAuthErr ==
  /\ pc = "main" /\ (passEncrypt \/ passDecrypt)
  /\ tmpUrl' = TmpDefault(tmpUrl)
  /\ pc' = "exit1"
  /\ StartFrame
  /\ UNCHANGED <<dst, tmp, useTmp, bytesEncrypt, bytesDecrypt, checked, enabled,
                 dstStart, injected>>

\* line 88: the safety flag is not given
MainNoSafety ==
  /\ pc = "safety" /\ ~useSafety
  /\ pc' = "tmp"
  /\ StartFrame
  /\ UNCHANGED <<dst, tmp, useTmp, bytesEncrypt, bytesDecrypt, tmpUrl, checked,
                 enabled, dstStart, injected>>

\* lines 89-92: safetyCheck cannot read the destination: log.Fatal
MainSafetyErr ==
  /\ pc = "safety" /\ useSafety
  /\ CanFail(1) /\ injected' = injected + 1
  /\ checked' = "err"
  /\ pc' = "exit1"
  /\ StartFrame
  /\ UNCHANGED <<dst, tmp, useTmp, bytesEncrypt, bytesDecrypt, tmpUrl, enabled,
                 dstStart>>

\* lines 89-93: the check passes
MainSafetyPass ==
  /\ pc = "safety" /\ useSafety /\ safetyCheck(dst, bytesEncrypt)
  /\ checked' = "pass"
  /\ pc' = "tmp"
  /\ StartFrame
  /\ UNCHANGED <<dst, tmp, useTmp, bytesEncrypt, bytesDecrypt, tmpUrl, enabled,
                 dstStart, injected>>

\* mutant: the run goes on after a check that did not pass
MainSafetyExit_goesOn ==
  /\ pc = "safety" /\ useSafety /\ ~safetyCheck(dst, bytesEncrypt) /\ ~genSafety
  /\ checked' = "fail"
  /\ pc' = "tmp"
  /\ StartFrame
  /\ UNCHANGED <<dst, tmp, useTmp, bytesEncrypt, bytesDecrypt, tmpUrl, enabled,
                 dstStart, injected>>

\* lines 93-98: the check does not pass and gen-safety is not given: os.Exit(1)
MainSafetyExit ==
  /\ pc = "safety" /\ useSafety /\ ~safetyCheck(dst, bytesEncrypt) /\ ~genSafety
  /\ checked' = "fail"
  /\ pc' = "exit1"
  /\ StartFrame
  /\ UNCHANGED <<dst, tmp, useTmp, bytesEncrypt, bytesDecrypt, tmpUrl, enabled,
                 dstStart, injected>>

\* lines 93-104: the check does not pass, gen-safety is given, the marker is
\* written
MainSafetyGen ==
  /\ pc = "safety" /\ useSafety /\ ~safetyCheck(dst, bytesEncrypt) /\ genSafety
  /\ checked' = "fail"
  /\ dst' = enableSafetyCheck(dst, bytesEncrypt)
  /\ enabled' = "ok"
  /\ pc' = "tmp"
  /\ StartFrame
  /\ UNCHANGED <<tmp, useTmp, bytesEncrypt, bytesDecrypt, tmpUrl, dstStart, injected>>

\* lines 99-103: enableSafetyCheck fails to write the marker: log.Fatal
MainSafetyGenErr ==
  /\ pc = "safety" /\ useSafety /\ ~safetyCheck(dst, bytesEncrypt) /\ genSafety
  /\ CanFail(1) /\ injected' = injected + 1
  /\ checked' = "fail"
  /\ enabled' = "err"
  /\ pc' = "exit1"
  /\ StartFrame
  /\ UNCHANGED <<dst, tmp, useTmp, bytesEncrypt, bytesDecrypt, tmpUrl, dstStart>>

\* lines 107-113: the temporary bucket cannot be opened: log.Fatal
MainTmpErr ==
  /\ pc = "tmp" /\ tmpUrl # ""
  /\ CanFail(1) /\ injected' = injected + 1
  /\ pc' = "exit1"
  /\ StartFrame
  /\ UNCHANGED <<dst, tmp, useTmp, bytesEncrypt, bytesDecrypt, tmpUrl, checked,
                 enabled, dstStart>>

\* lines 107-132: the temporary bucket is opened if one is named, the drain
\* goroutine is started and mirror is called
MainMirror ==
  /\ pc = "tmp"
  /\ useTmp' = (tmpUrl # "")
  /\ tmp' = Empty
  /\ dstStart' = dst
  /\ pc' = "loop"
  /\ StartFrame
  /\ UNCHANGED <<dst, bytesEncrypt, bytesDecrypt, tmpUrl, checked, enabled, injected>>

\* ------------------------------------------------------------- further runs
\* the state in which main starts the drain goroutine and calls mirror
Fresh ==
  /\ pos' = 1 /\ loopN' = 0 /\ addedN' = 0 /\ cleanloop' = <<>>
  /\ pc' = "loop" /\ sendMsg' = "" /\ sendAfter' = "" /\ crashBy' = ""
  /\ dpc' = "select" /\ errsN' = 0 /\ stopErrs' = FALSE /\ errsStopped' = FALSE
  /\ printed' = <<>>
  /\ sentLog' = <<>> /\ recvErr' = "" /\ errLog' = <<>>
  /\ failEvents' = 0 /\ sentN' = 0 /\ touched' = {} /\ dstWrites' = 0
  /\ matchedN' = 0 /\ lastWrite' = <<>>
  /\ cleanRuns' = 0 /\ delFails' = 0 /\ errKeys' = {} /\ copiedKeys' = {}

\* the same command is run again on the same buckets (followed here after
\* first runs without injected store failures)
Remirror ==
  /\ UNCHANGED injected
  /\ pc = "done" /\ run = "first" /\ injected = 0 /\ entry = "call"
  /\ run' = "again"
  /\ dstStart' = dst
  /\ Fresh
  /\ UNCHANGED <<src, dst, tmp, cfgVars, mainVars, fnVars, src0, first>>

\* the second call of TestEncryptBucket: the bucket written by an encrypting
\* run is mirrored into a new bucket with a decryption key
MirrorBack ==
  /\ UNCHANGED injected
  /\ pc = "done" /\ run = "first" /\ injected = 0 /\ Len(bytesEncrypt) # 0
  /\ entry = "call"
  /\ run' = "back"
  /\ src' = dst /\ dst' = Empty /\ tmp' = Empty
  /\ dstStart' = Empty
  /\ bytesEncrypt' = Nil /\ bytesDecrypt' = bytesEncrypt
  /\ useTmp' \in BOOLEAN
  /\ skipN' = 0
  /\ hasMD5' = [hasMD5 EXCEPT !["src"] = hasMD5["dst"]]
  /\ Fresh
  /\ UNCHANGED <<src0, first, mainVars, fnVars>>

\* the command is run again on the same buckets with the same password and
\* flags, but with safety and without gen-safety
MainAgain ==
  /\ UNCHANGED injected
  /\ pc = "done" /\ run = "first" /\ injected = 0 /\ entry = "main"
  /\ run' = "safe"
  /\ useSafety' = TRUE /\ genSafety' = FALSE
  /\ tmpUrl' = tmpFlag
  /\ useTmp' = FALSE /\ bytesEncrypt' = Nil /\ bytesDecrypt' = Nil
  /\ tmp' = Empty
  /\ checked' = "no" /\ enabled' = "no"
  /\ pc' = "main"
  /\ pos' = 1 /\ loopN' = 0 /\ addedN' = 0 /\ cleanloop' = <<>>
  /\ sendMsg' = "" /\ sendAfter' = "" /\ crashBy' = ""
  /\ dpc' = "select" /\ errsN' = 0 /\ stopErrs' = FALSE /\ errsStopped' = FALSE
  /\ printed' = <<>>
  /\ sentLog' = <<>> /\ recvErr' = "" /\ errLog' = <<>>
  /\ failEvents' = 0 /\ sentN' = 0 /\ touched' = {} /\ dstWrites' = 0
  /\ matchedN' = 0 /\ lastWrite' = <<>>
  /\ cleanRuns' = 0 /\ delFails' = 0 /\ errKeys' = {} /\ copiedKeys' = {}
  /\ dstStart' = dst
  /\ UNCHANGED <<src, dst, hasMD5, skipN, src0, first, fnVars, entry, passEncrypt,
                 passDecrypt, tmpFlag, password>>

Next ==
  \/ MainAuth \/ MainAuthErr \/ MainNoSafety \/ MainSafetyErr \/ MainSafetyPass
  \/ MainSafetyExit \/ MainSafetyGen \/ MainSafetyGenErr \/ MainTmpErr \/ MainMirror
  \/ CleanNoop \/ CleanDelete \/ CleanDeleteErr \/ CleanDeleteGone
  \/ BodyEOF \/ BodyListErr \/ BodySkip \/ BodySrcAttrErr
  \/ BodyStageErr \/ BodyStageDecryptErr \/ BodyStagePanic
  \/ \E nilAttrs \in BOOLEAN : BodyExistsErr(nilAttrs)
  \/ \E nilAttrs \in BOOLEAN : BodyDstAttrErr(nilAttrs)
  \/ BodyNilAttrPanic \/ BodyHashMatch \/ BodyCopyErr \/ BodyCopied
  \/ DrainRecv \/ DrainCount \/ DrainStop
  \/ MainCloseStop \/ MainSummary
  \/ Remirror \/ MirrorBack \/ MainAgain

Spec == Init /\ [][Next]_vars

\* the drain goroutine of lines 119-130 is scheduled whenever it can run
SpecLive ==
  Spec /\ WF_vars(DrainRecv) /\ WF_vars(DrainCount) /\ WF_vars(DrainStop)

\* ------------------------------------------- the functions on their own
\* the byte strings and keys the tests of single functions are run with
Texts == UNION {[1..n -> Byte] : n \in 0..MaxLen}
FnKeys == {Nil, Key1, Key2}

\* a bucket without a marker, or with another content where a marker would be
FnDsts == {Empty} \cup {Put(Empty, safetyName(K), Stale) : K \in FnKeys}

InitFn ==
  /\ entry = "fn"
  /\ \E t \in Texts, k \in FnKeys : call = [op |-> "none", text |-> t, key |-> k, key2 |-> k]
  /\ ret = Ok(Nil)
  /\ dst \in FnDsts
  /\ src = Empty /\ tmp = Empty
  /\ hasMD5 = [b \in {"src", "dst", "tmp"} |-> TRUE]
  /\ skipN = 0
  /\ useTmp = FALSE /\ bytesEncrypt = Nil /\ bytesDecrypt = Nil
  /\ pc = "fn"
  /\ FreshState /\ NoFlags

FnFrame ==
  UNCHANGED <<src, tmp, cfgVars, mainVars, loopVars, pc, drainVars, printed, runVars,
              histVars, lifeVars, logVars, sentN, injected>>

Called(op, k2) == call' = [call EXCEPT !.op = op, !.key2 = k2]

\* encrypt(text, key)
FnEncrypt ==
  /\ call.op = "none"
  /\ ret' = Ok(encrypt(call.text, call.key))
  /\ Called("encrypt", call.key)
  /\ FnFrame /\ UNCHANGED dst

\* decrypt(cyphertext, key2) of what encrypt returned
FnDecrypt ==
  /\ call.op = "encrypt"
  /\ \E k2 \in FnKeys : ret' = decrypt(ret.val, k2) /\ Called("decrypt", k2)
  /\ FnFrame /\ UNCHANGED dst

\* decrypt(text, key) of any byte string
FnDecryptText ==
  /\ call.op = "none"
  /\ ret' = decrypt(call.text, call.key)
  /\ Called("decryptText", call.key)
  /\ FnFrame /\ UNCHANGED dst

\* makeKey(text, key, nil)
FnMakeKey ==
  /\ call.op = "none"
  /\ ret' = makeKey(call.text, call.key, Nil)
  /\ Called("makeKey", call.key)
  /\ FnFrame /\ UNCHANGED dst

\* makeKey(newKey, nil, key2) of what makeKey returned
FnMakeKeyBack ==
  /\ call.op = "makeKey"
  /\ \E k2 \in FnKeys : ret' = makeKey(ret.val, Nil, k2) /\ Called("makeKeyBack", k2)
  /\ FnFrame /\ UNCHANGED dst

\* makeKey(text, nil, key) of any key string
FnMakeKeyText ==
  /\ call.op = "none"
  /\ ret' = makeKey(call.text, Nil, call.key)
  /\ Called("makeKeyText", call.key)
  /\ FnFrame /\ UNCHANGED dst

\* enableSafetyCheck(ctx, bkt, key) of TestSafety
FnEnable ==
  /\ call.op = "none"
  /\ dst' = enableSafetyCheck(dst, call.key)
  /\ Called("enable", call.key)
  /\ FnFrame /\ UNCHANGED ret

\* safetyCheck(ctx, bkt, key2), on the bucket as it was or after enableSafetyCheck
FnCheck ==
  /\ call.op \in {"none", "enable"}
  /\ \E k2 \in FnKeys :
       /\ ret' = Ok(safetyCheck(dst, k2))
       /\ Called(IF call.op = "none" THEN "check" ELSE "enableCheck", k2)
  /\ FnFrame /\ UNCHANGED dst

NextFn ==
  \/ FnEncrypt \/ FnDecrypt \/ FnDecryptText
  \/ FnMakeKey \/ FnMakeKeyBack \/ FnMakeKeyText
  \/ FnEnable \/ FnCheck

SpecFn == InitFn /\ [][NextFn]_vars

\* ------------------------------------------------------------------ claims
Returned == pc \in {"returned", "stopping", "done"}
Done == pc = "done"
Summary == printed[1]
\* the keys under which the staging copy transforms: mirror transforms only
\* when a temporary bucket is passed
EffEncrypt == IF useTmp THEN bytesEncrypt ELSE Nil
EffDecrypt == IF useTmp THEN bytesDecrypt ELSE Nil

\* C1: a destination object is written by mirror only if, at the existence
\* check, the destination key was absent or the destination's recorded hash
\* differed from the hash of the (possibly staged) source object; an existing
\* object with an equal hash is never rewritten.
C1_WriteOnlyIfAbsentOrDiffers ==
  lastWrite # <<>> =>
    LET w == lastWrite[1]
    IN  \/ w.key \notin DOMAIN w.pre
        \/ AttrMD5("dst", w.pre[w.key]) # AttrMD5(csbkt, w.text)

\* an existing destination object with another hash has been overwritten
C1_Witness ==
  /\ lastWrite # <<>>
  /\ lastWrite[1].key \in DOMAIN lastWrite[1].pre
  /\ hasMD5["dst"] /\ hasMD5[csbkt]
  /\ lastWrite[1].pre[lastWrite[1].key] # lastWrite[1].text

\* C2: with an encryption key every destination write is under
\* encrypt-then-base64url(source key) and holds the ciphertext of the source
\* content, with or without a staging store; with a decryption key every
\* write is under the decoded and decrypted key with the decrypted content.
C2_WritesAreTransformed ==
  lastWrite # <<>> =>
    LET w == lastWrite[1]
    IN  /\ Len(bytesEncrypt) # 0 =>
             /\ w.key = B64Encode(encrypt(w.from, bytesEncrypt))
             /\ w.text = encrypt(src[w.from], bytesEncrypt)
        /\ (Len(bytesDecrypt) # 0 /\ Len(bytesEncrypt) = 0) =>
             /\ B64Decode(w.from).st = "ok"
             /\ Ok(w.key) = decrypt(B64Decode(w.from).val, bytesDecrypt)
             /\ Ok(w.text) = decrypt(src[w.from], bytesDecrypt)

\* C3: the value mirror returns equals the number of destination writes that
\* completed in this run; skipped, matched and failed objects are not counted.
C3_CountIsWrites ==
  /\ Returned => addedN = dstWrites
  /\ Done => Summary.n = dstWrites

\* a run returned having copied one object and failed on another
C3_Witness == Done /\ Summary.n = 1 /\ failEvents = 1 /\ Cardinality(touched) = 2

\* C4: N distinct objects, an empty destination, skip = 0 and no failing
\* step: the run returns N, sends no error and the destination holds all N.
C4_AllCopied ==
  (run = "first" /\ Done /\ dstStart = Empty /\ skipN = 0 /\ failEvents = 0) =>
    /\ Summary.n = Cardinality(DOMAIN src)
    /\ Summary.errs = 0 /\ sentN = 0
    /\ Cardinality(DOMAIN dst) = Cardinality(DOMAIN src)
    /\ \A k \in DOMAIN src :
         LET c == copyObj(src[k], k, EffEncrypt, EffDecrypt)
         IN  c.st = "ok" /\ c.newKey \in DOMAIN dst /\ dst[c.newKey] = c.newText

\* two objects were mirrored into an empty destination
C4_Witness ==
  /\ run = "first" /\ Done /\ dstStart = Empty /\ skipN = 0 /\ failEvents = 0
  /\ Cardinality(DOMAIN src) = 2 /\ Summary.n = 2

C6_RoundTrip ==
  (/\ run = "back" /\ Done /\ Summary.errs = 0
   /\ first[1].errs = 0 /\ first[1].skipN = 0 /\ first[1].fresh
   /\ bytesDecrypt = first[1].enc) =>
    \A k \in DOMAIN src0 : k \in DOMAIN dst /\ dst[k] = src0[k]

\* the first S objects of the listing
FirstS == {Listing[i] : i \in 1..(IF skipN < Len(Listing) THEN skipN ELSE Len(Listing))}

\* C7: with skip = S exactly the first S listed objects are discarded: none
\* of them reaches an attribute fetch, staging, existence check or copy, and
\* every later object is processed, also when listing errors occur.
C7_SkipsExactlyFirstS ==
  /\ touched \cap FirstS = {}
  /\ Returned => touched = (DOMAIN src) \ FirstS

\* C8: a failure of any step of one object is reported on the error channel
\* and the loop proceeds; no such failure aborts or crashes the run.
C8_StepFailuresAreReported ==
  /\ crashBy # "nilattrs"
  /\ Returned => sentN >= failEvents

\* C9: when main reads the error count after closing stopErrs and receiving
\* the acknowledgement, it equals the number of errors sent; the
\* acknowledgement is never given while a received error is uncounted.
C9_CountEqualsSent ==
  /\ errsStopped => (dpc = "exited" /\ errsN = sentN)
  /\ Done => Summary.errs = sentN

\* two errors were sent and the summary was printed
C9_Witness == Done /\ sentN = 2 /\ Summary.errs = 2

\* C10: the final error count equals the number of per-object failure
\* events: one reported error per failure, none without a failure.
C10_ErrorsEqualFailures == Done => Summary.errs = failEvents

\* C11: safetyCheck(bucket, K) is true exactly when the bucket holds at the
\* marker location of K the content enableSafetyCheck(bucket, K) writes:
\* after enableSafetyCheck(bucket, K) the check is true for K and false for
\* every other key, and without a marker it is false, with no error.
C11_CheckMatchesEnable ==
  LET name == safetyName(call.key2)
  IN  /\ call.op \in {"check", "enableCheck"} =>
           /\ ret.st = "ok"
           /\ ret.val = (/\ name \in DOMAIN dst
                         /\ dst[name] = enableSafetyCheck(Empty, call.key2)[name])
      /\ call.op = "enableCheck" => (ret.val = (call.key2 = call.key))
      /\ (call.op = "check" /\ name \notin DOMAIN dst) => ret = Ok(FALSE)

\* after enableSafetyCheck with one key the check with another key was false
C11_Witness ==
  /\ call.op = "enableCheck" /\ call.key = Key1 /\ call.key2 = Key2
  /\ ret = Ok(FALSE)
  /\ safetyName(Key1) \in DOMAIN dst

\* the mirror loop has been entered
Mirroring == pc \in {"loop", "body", "send", "returned", "stopping", "done", "crashed"}

\* C12: with the safety flag, safetyCheck runs before the mirror loop; a
\* check that does not pass without gen-safety ends the process with nothing
\* copied and no marker written; enableSafetyCheck is called only after a
\* check that did not pass and with gen-safety; the loop starts only after
\* the check passed or the marker was written.
C12_SafetyBeforeMirror ==
  (entry = "main" /\ useSafety) =>
    /\ Mirroring => (checked = "pass" \/ (checked = "fail" /\ enabled = "ok"))
    /\ dstWrites > 0 => checked \in {"pass", "fail"}
    /\ (checked = "fail" /\ ~genSafety) =>
         (pc = "exit1" /\ enabled = "no" /\ dst = dstStart /\ dstWrites = 0)
    /\ enabled # "no" => (checked = "fail" /\ genSafety)
    /\ enabled = "ok" => safetyName(bytesEncrypt) \in DOMAIN dst

\* the check did not pass, the marker was generated and an object was copied
C12_Witness ==
  /\ entry = "main" /\ useSafety /\ genSafety
  /\ checked = "fail" /\ enabled = "ok"
  /\ Done /\ dstWrites = 1 /\ safetyCheck(dst, bytesEncrypt)

\* C13: a run with the gen-safety flag writes the marker of its key on the
\* destination before it copies, so that a later run with the safety flag and
\* the same password passes the safety check.
C13_GenSafetyThenSafetyPasses ==
  /\ (entry = "main" /\ run = "first" /\ genSafety /\ Mirroring) =>
       safetyCheck(dst, bytesEncrypt)
  /\ (entry = "main" /\ run = "safe" /\ first[1].genSafety /\ checked # "no") =>
       checked = "pass"

\* C14: in a decrypting run a decryption failure (a content or a decoded key
\* shorter than the nonce, a content that does not authenticate, a wrong
\* key) is an error value that is reported; it never crashes the run and the
\* object is not written to the destination.
C14_DecryptFailuresAreErrors ==
  (useTmp /\ Len(bytesDecrypt) # 0) =>
    /\ crashBy # "slice"
    /\ lastWrite # <<>> => Stage(lastWrite[1].from).st = "ok"
    /\ Returned => sentN >= Cardinality({k \in touched : Stage(k).st # "ok"})

\* C15: for every content and every non-empty key,
\* decrypt(encrypt(content, key), key) returns the content, with no error.
C15_DecryptInvertsEncrypt ==
  (call.op = "decrypt" /\ Len(call.key) # 0 /\ call.key2 = call.key) =>
    ret = Ok(call.text)

\* a content of the greatest length was encrypted and decrypted with one key
C15_Witness ==
  /\ call.op = "decrypt" /\ call.key = Key1 /\ call.key2 = Key1
  /\ Len(call.text) = MaxLen /\ ret = Ok(call.text)

\* C16: the key transform is reversible: for every key string k and every
\* non-empty key K, makeKey(makeKey(k, K, nil), nil, K) returns k with no
\* error; makeKey with both keys empty returns k unchanged.
C16_MakeKeyReversible ==
  /\ (call.op = "makeKeyBack" /\ Len(call.key) # 0 /\ call.key2 = call.key) =>
       ret = Ok(call.text)
  /\ (call.op = "makeKey" /\ Len(call.key) = 0) => ret = Ok(call.text)

\* a key string of the greatest length was transformed and transformed back
C16_Witness ==
  /\ call.op = "makeKeyBack" /\ call.key = Key2 /\ call.key2 = Key2
  /\ Len(call.text) = MaxLen /\ call.text[1] > 1 /\ ret = Ok(call.text)

C18_MirrorEndsWithSummary ==
  /\ Mirroring => (Done \/ ENABLED Next)
  /\ Done => printed = <<[n |-> addedN, errs |-> errsN]>>

\* C19: whenever encrypt or decrypt is requested, main calls mirror with a
\* temporary bucket: the one named by tmp-bkt, or an in-memory one when
\* tmp-bkt is not given; with neither encryption nor tmp-bkt, mirror runs
\* without a temporary bucket.
C19_StagingWheneverKeyed ==
  (entry = "main" /\ Mirroring) =>
    /\ (passEncrypt \/ passDecrypt) =>
         /\ useTmp
         /\ tmpUrl = (IF tmpFlag = "" THEN "mem://" ELSE tmpFlag)
    /\ (~passEncrypt /\ ~passDecrypt) => (useTmp = (tmpFlag # "") /\ tmpUrl = tmpFlag)

\* an encrypting run without tmp-bkt staged its object in memory and copied it
C19_Witness ==
  /\ entry = "main" /\ passEncrypt /\ ~passDecrypt /\ tmpFlag = ""
  /\ Done /\ useTmp /\ tmpUrl = "mem://"
  /\ dstWrites = 1 /\ lastWrite[1].text = encrypt(src[lastWrite[1].from], bytesEncrypt)

\* C20: mirror only checks whether the destination has an object of the same
\* name: an object whose destination key exists is never copied, so a
\* changed content of an existing object is not detected.
C20_ExistingKeyNeverCopied ==
  lastWrite # <<>> => lastWrite[1].key \notin DOMAIN lastWrite[1].pre

C22_CleanupRunsOnce ==
  /\ cleanRuns <= 1
  /\ (useTmp /\ pc = "body" /\ cleanloop # <<>>) => cleanRuns >= 1

\* what holds of the channel in every state: a blocked send finds the drain
\* goroutine alive and stop not yet signalled, stop is signalled only after
\* mirror returned, and the log is the sequence of errors sent, in order, less
\* the one received and not yet logged.
C23_Channel ==
  /\ pc = "send" => (sendMsg # "" /\ ~stopErrs /\ dpc \in {"select", "count"})
  /\ stopErrs => Returned
  /\ Len(sentLog) = sentN /\ Len(errLog) = errsN
  /\ IF dpc = "count" THEN sentLog = Append(errLog, recvErr)
                      ELSE sentLog = errLog /\ recvErr = ""

\* C23: every error sent by the mirror loop is received by the drain loop
\* before the mirror loop takes its next step, errors are logged in the order
\* they were sent, no send blocks forever and, once stop is signalled (only
\* after mirror returned), the acknowledgement is eventually delivered.
C23_HandoffInOrder ==
  /\ []C23_Channel
  /\ [][(pc = "send" /\ pc' # "send") =>
          (sentLog' = Append(sentLog, sendMsg) /\ recvErr' = sendMsg)]_vars
  /\ (pc = "send") ~> (pc # "send")
  /\ stopErrs ~> errsStopped

\* two different errors were sent, logged in that order and acknowledged
C23_Witness ==
  /\ Done /\ errsStopped /\ Len(errLog) = 2 /\ errLog[1] # errLog[2]
  /\ errLog = sentLog

\* C24: in any single run at most one of the encryption key and the
\* decryption key is non-empty: main never calls mirror with both set, for
\* every combination of the encrypt and decrypt flags.
C24_OneKeyAtMost ==
  (entry = "main" /\ Mirroring) => ~(bytesEncrypt # <<>> /\ bytesDecrypt # <<>>)

\* C25: every retained object ends in exactly one of Copied, Skipped or
\* Failed: when mirror returns, the number of retained objects equals
\* copiedCount + the hash-match skips + the objects an error was reported
\* for, and no object an error was reported for is also counted as copied.
C25_OneFinalState ==
  Returned =>
    /\ Cardinality(touched) = addedN + matchedN + Cardinality(errKeys)
    /\ errKeys \cap copiedKeys = {}

\* C26: with a staging store and staging deletes that do not fail, the
\* staging store holds at most one staged object at every point of a mirror
\* run, for any number of source objects and any pattern of per-object
\* failures.
C26_OneStagedAtMost ==
  (useTmp /\ Mirroring /\ delFails = 0) => Cardinality(DOMAIN tmp) <= 1

\* a second object was staged after a failure, and the staging store holds
\* only that one
C26_Witness ==
  /\ useTmp /\ delFails = 0 /\ failEvents >= 1 /\ Cardinality(touched) = 2
  /\ cleanloop # <<>> /\ cleanRuns = 0 /\ DOMAIN tmp = {cleanloop[1]}
  /\ cleanloop[2] # Listing[1]

\* C27: after a mirror run with skip = 0 that reports 0 errors, every source
\* object has a destination object under its transformed key whose content is
\* the transform of the source content, for any initial destination contents
\* and for stores that do or do not report a content hash.
C27_MirroredAfterCleanRun ==
  (Done /\ skipN = 0 /\ Summary.errs = 0) =>
    \A k \in DOMAIN src :
      LET c == copyObj(src[k], k, EffEncrypt, EffDecrypt)
      IN  c.st = "ok" => (c.newKey \in DOMAIN dst /\ dst[c.newKey] = c.newText)

\* the destination keys the objects processed so far in this run map to
C28_Processed == {objKey(k) : k \in {t \in touched : ~useTmp \/ Stage(t).st = "ok"}}

\* C28: across any run mirror never writes to or deletes from the source and
\* never deletes from the destination: the source is unchanged, the
\* destination's key set only grows, and destination objects whose keys
\* correspond to no processed source object keep their content.
C28_MirrorFrame ==
  /\ [][(Mirroring /\ Mirroring' /\ run' = run) =>
          /\ src' = src
          /\ DOMAIN dst \subseteq DOMAIN dst'
          /\ \A k \in DOMAIN dst :
               dst'[k] # dst[k] =>
                 (dstWrites' = dstWrites + 1 /\ lastWrite'[1].key = k)]_vars
  /\ [](Mirroring =>
          /\ run # "back" => src = src0
          /\ \A k \in DOMAIN dstStart :
               /\ k \in DOMAIN dst
               /\ k \notin C28_Processed => dst[k] = dstStart[k])

\* an object was copied into a destination that held another object, which
\* is still there with its content
C28_Witness ==
  /\ Done /\ addedN >= 1 /\ src = src0
  /\ \E k \in DOMAIN dstStart :
       k \notin C28_Processed /\ k \in DOMAIN dst /\ dst[k] = dstStart[k]
====
